---- MODULE Spec2Model ----
(***************************************************************************)
(* A model of telpy.TelnetConnection (src/telpy.py): the negotiation scan, *)
(* the receive loops read_until / expect, and the session operations       *)
(* login, write, close and set_debug, driven by a caller and by a peer     *)
(* that may deliver any chunk of a finite menu (or close) at each receive. *)
(*                                                                         *)
(* Byte strings are sequences of integers 0..255.  Positions in `data`     *)
(* keep Python's 0-based numbering: Python's data[k] is data[k+1] here.    *)
(***************************************************************************)
EXTENDS Integers, Sequences, FiniteSets, TLC

VARIABLES
    logged_in,  \* self.logged_in
    debug,      \* self.debug
    conn,       \* the socket self.conn: "open" or "closed"
    status,     \* the process: "running", "exited" (sys.exit), "crashed" (uncaught exception)
    pc,         \* where the caller's thread is: "idle" or the blocking receive it waits at
    neg,        \* TRUE while negotiate(data) is scanning
    recvd,      \* what the last conn.recv(1024) returned
    data,       \* the chunk a receive loop is working on (local `data`)
    pos,        \* negotiate's scan position (0-based, as in the code)
    resp,       \* negotiate's local `resp`
    sent,       \* every payload handed to conn.send, in order
    result,     \* result[0] of the last expect() that returned (-2 before any)
    output,     \* write's local `output`
    retval,     \* what the last returned operation returned
    returned,   \* the operation that returned last ("none" before any)
    username,   \* login's encoded `username`
    password,   \* login's argument `password`
    cmd,        \* write's argument `cmd`
    nrecv,      \* receives performed so far
    ncalls,     \* operations called so far
    peer        \* the scripted peer: the chunks it has emitted that are still in
                \* flight, and whether it emitted more than its one prompt chunk

vars == <<logged_in, debug, conn, status, pc, neg, recvd, data, pos, resp, sent, result,
          output, retval, returned, username, password, cmd, nrecv, ncalls, peer>>

----------------------------------------------------------------------------
(* Bounds of the model *)

MaxRecv == 5         \* receives the peer answers in one run
MaxCalls == 3        \* operations the caller issues in one run
MaxPlain == 3        \* length of the chunks without control sequences given to the scan

----------------------------------------------------------------------------
(* self.commands, self.prompts and the literals of the code *)

SE == 240
WILL == 251
WONT == 252
DO == 253
DONT == 254
IAC == 255
NL == 10

prompts == <<58, 62, 36, 35, 37>>                       \* ':>$#%'
Ogin == <<111, 103, 105, 110>>                          \* 'ogin'
Assword == <<97, 115, 115, 119, 111, 114, 100>>         \* 'assword'
Ncorrect == <<110, 99, 111, 114, 114, 101, 99, 116>>    \* 'ncorrect'

None == <<-1>>      \* Python's None, told apart from every byte string

(* expected = ['ncorrect']; expected.extend(list(self.prompts)) *)
expected == <<Ncorrect>> \o [i \in 1..Len(prompts) |-> <<prompts[i]>>]

(* iterating the string self.prompts yields its characters one by one *)
promptPhrases == [i \in 1..Len(prompts) |-> <<prompts[i]>>]

----------------------------------------------------------------------------
(* Pure helpers *)

(* bytes(s, 'ascii'): defined only for code points below 128 *)
AsciiOk(s) == \A i \in 1..Len(s) : s[i] < 128

Encode(s) == [i \in 1..Len(s) |-> s[i]]

(* a variant that forgets the newline terminator *)
LineNoNewline(s) == Encode(s)

(* bytes(s + '\n', 'ascii') *)
Line(s) == Encode(s) \o <<NL>>

(* a variant that is content with the first byte of the phrase *)
ContainsFirstByte(phrase, d) == \E i \in 1..Len(d) : d[i] = phrase[1]

(* `phrase in data` on bytes *)
Contains(phrase, d) ==
    \E i \in 0..(Len(d) - Len(phrase)) : SubSeq(d, i + 1, i + Len(phrase)) = phrase

(* a variant that reports the phrase occurring earliest in the chunk *)
match_phrase_earliest(phrases, d) ==
    LET hits == {i \in 1..Len(phrases) : Contains(phrases[i], d)}
        at(i) == CHOOSE k \in 0..Len(d) :
                    /\ SubSeq(d, k + 1, k + Len(phrases[i])) = phrases[i]
                    /\ \A j \in 0..(k - 1) : SubSeq(d, j + 1, j + Len(phrases[i])) # phrases[i]
    IN  IF hits = {} THEN -1
        ELSE (CHOOSE i \in hits : \A j \in hits : at(i) < at(j) \/ (at(i) = at(j) /\ i <= j)) - 1

(* match_phrase: the index (0-based) of the first phrase of the list found in d, or -1 *)
match_phrase(phrases, d) ==
    LET hits == {i \in 1..Len(phrases) : Contains(phrases[i], d)}
    IN  IF hits = {} THEN -1
        ELSE (CHOOSE i \in hits : \A j \in hits : i <= j) - 1

(* a variant that takes every command code for the escape marker *)
IsEscapeAnyCommand(b) == b >= SE

(* the test of lines 186 and 192: the byte is the escape marker *)
IsEscape(b) == b = IAC

(* print_commands raises IndexError when an IAC lies in the last two bytes *)
print_commands_raises(d) ==
    \E i \in 1..Len(d) : d[i] = IAC /\ i + 2 > Len(d)

(* print_debug returns at once unless self.debug *)
print_debug_raises(d) == debug /\ print_commands_raises(d)

(* a variant with the two counter-verbs exchanged *)
handle_command_swapped(code, val) ==
    IF code = WILL THEN <<IAC, WONT, val>>
    ELSE IF code = DO THEN <<IAC, DONT, val>>
    ELSE <<>>

(* a variant that refuses every verb instead of exiting on the unknown ones *)
handle_command_answers_all(code, val) ==
    IF code = WILL THEN <<IAC, DONT, val>> ELSE <<IAC, WONT, val>>

(* handle_command: the response, or <<>> when it calls sys.exit() *)
handle_command(code, val) ==
    IF code = WILL THEN <<IAC, DONT, val>>
    ELSE IF code = DO THEN <<IAC, WONT, val>>
    ELSE <<>>

----------------------------------------------------------------------------
(* What the caller and the peer may supply *)

Usernames == {<<117>>, <<233>>}         \* 'u', and a non-ASCII name
Passwords == {<<112>>, <<233>>}         \* 'p', and a non-ASCII password
Commands == {<<99>>, <<233>>}           \* 'c', and a non-ASCII command

(* the chunks the peer may deliver; <<>> is its orderly close *)
Chunks ==
    { <<>>, Ogin, Assword, Ncorrect, <<36>>, <<120>>,
      <<111, 103>>, <<105, 110>>,                       \* 'og', 'in'
      <<36>> \o Ncorrect,                               \* '$ncorrect'
      <<IAC, WILL, 1>>, <<IAC, DO, 1>>, <<IAC, WONT, 1>>,
      <<IAC, WILL, 1, 36>>,                             \* a sequence, then '$'
      <<IAC>>, <<IAC, IAC>>, <<IAC, WILL, IAC>> }

----------------------------------------------------------------------------
Running == status = "running"

(* no scripted peer: every receive of the run is free to return any chunk *)
NoScript == [out |-> <<>>, banner |-> FALSE]

Init ==
    /\ logged_in = FALSE
    /\ debug = FALSE
    /\ conn = "open"
    /\ status = "running"
    /\ pc = "idle"
    /\ neg = FALSE
    /\ recvd = <<>>
    /\ data = <<>>
    /\ pos = 0
    /\ resp = <<>>
    /\ sent = <<>>
    /\ result = -2
    /\ output = <<>>
    /\ retval = None
    /\ returned = "none"
    /\ username = <<>>
    /\ password = <<>>
    /\ cmd = <<>>
    /\ nrecv = 0
    /\ ncalls = 0
    /\ peer = NoScript

----------------------------------------------------------------------------
(* a variant of RecvOutcome without the `if not data:` test *)
RecvOutcomeNoCloseTest(d) ==
    IF conn = "closed" THEN "OSError"
    ELSE IF print_debug_raises(d) THEN "IndexError"
    ELSE "data"

(* What one conn.recv(1024) followed by print_debug(self.serv, data) does     *)
(* with the chunk d the peer delivers: recv raises OSError on a socket that   *)
(* close() has closed; print_debug may raise; an empty chunk is a peer close. *)
RecvOutcome(d) ==
    IF conn = "closed" THEN "OSError"
    ELSE IF print_debug_raises(d) THEN "IndexError"
    ELSE IF d = <<>> THEN "empty"
    ELSE "data"

AtReceive(stage) == Running /\ pc = stage /\ ~neg /\ nrecv < MaxRecv

(* the receive itself: nothing is received when recv raised *)
Received(d) ==
    IF RecvOutcome(d) = "OSError"
    THEN UNCHANGED <<recvd, nrecv>>
    ELSE recvd' = d /\ nrecv' = nrecv + 1

(* data = self.conn.recv(1024) in read_until and expect *)
ReceivedData(d) ==
    /\ Received(d)
    /\ data' = IF RecvOutcome(d) = "OSError" THEN data ELSE d

(* how a receive loop goes on without a match: the exception propagates,   *)
(* `if not data:` calls sys.exit(1), or negotiate(data) starts at pos = 0   *)
NoMatch(d) ==
    /\ status' = IF RecvOutcome(d) \in {"OSError", "IndexError"} THEN "crashed"
                 ELSE IF RecvOutcome(d) = "empty" THEN "exited"
                 ELSE status
    /\ neg' = (RecvOutcome(d) = "data")
    /\ pos' = IF RecvOutcome(d) = "data" THEN 0 ELSE pos
    /\ UNCHANGED <<logged_in, debug, conn, pc, resp, sent, result, output, retval,
                   returned, username, password, cmd, ncalls>>

----------------------------------------------------------------------------
(* The caller's operations *)

set_debug ==
    /\ Running /\ pc = "idle" /\ ncalls < MaxCalls
    /\ debug' = TRUE
    /\ returned' = "set_debug"
    /\ retval' = None
    /\ ncalls' = ncalls + 1
    /\ UNCHANGED <<logged_in, conn, status, pc, neg, recvd, data, pos, resp, sent, result,
                   output, username, password, cmd, nrecv>>

(* login, up to its first receive: line 288 encodes the username *)
login(u, p) ==
    /\ Running /\ pc = "idle" /\ ncalls < MaxCalls
    /\ ncalls' = ncalls + 1
    /\ IF AsciiOk(u)
       THEN /\ username' = Line(u)
            /\ password' = p
            /\ pc' = "login_ogin"
            /\ UNCHANGED status
       ELSE /\ status' = "crashed"
            /\ UNCHANGED <<username, password, pc>>
    /\ UNCHANGED <<logged_in, debug, conn, neg, recvd, data, pos, resp, sent, result,
                   output, retval, returned, cmd, nrecv>>

(* a variant that searches the previous chunk and the new one together *)
login_read_ogin_reassembling(d) ==
    /\ AtReceive("login_ogin")
    /\ ReceivedData(d)
    /\ IF RecvOutcome(d) = "data" /\ Contains(Ogin, recvd \o d)
       THEN /\ sent' = Append(sent, username)
            /\ IF AsciiOk(password)
               THEN pc' = "login_assword" /\ UNCHANGED status
               ELSE status' = "crashed" /\ UNCHANGED pc
            /\ UNCHANGED <<logged_in, debug, conn, neg, pos, resp, result, output,
                           retval, returned, username, password, cmd, ncalls>>
       ELSE NoMatch(d)

(* read_until('ogin'), one turn of its loop; on the match login sends the   *)
(* username and encodes the password (line 293) before the next receive     *)
login_read_ogin(d) ==
    /\ AtReceive("login_ogin")
    /\ ReceivedData(d)
    /\ IF RecvOutcome(d) = "data" /\ Contains(Ogin, d)
       THEN /\ sent' = Append(sent, username)
            /\ IF AsciiOk(password)
               THEN pc' = "login_assword" /\ UNCHANGED status
               ELSE status' = "crashed" /\ UNCHANGED pc
            /\ UNCHANGED <<logged_in, debug, conn, neg, pos, resp, result, output,
                           retval, returned, username, password, cmd, ncalls>>
       ELSE NoMatch(d)

(* read_until('assword'), one turn; on the match login sends the password *)
login_read_assword(d) ==
    /\ AtReceive("login_assword")
    /\ ReceivedData(d)
    /\ IF RecvOutcome(d) = "data" /\ Contains(Assword, d)
       THEN /\ sent' = Append(sent, Line(password))
            /\ pc' = "login_expect"
            /\ UNCHANGED <<logged_in, debug, conn, status, neg, pos, resp, result,
                           output, retval, returned, username, password, cmd, ncalls>>
       ELSE NoMatch(d)

(* a variant that also accepts index 0 *)
LoginSucceedsFromZero(r) == r >= 0

(* the test of line 301 *)
LoginSucceeds(r) == r > 0

(* expect(expected), one turn; on a match login decides and returns *)
login_expect(d) ==
    /\ AtReceive("login_expect")
    /\ ReceivedData(d)
    /\ IF RecvOutcome(d) = "data" /\ match_phrase(expected, d) # -1
       THEN /\ result' = match_phrase(expected, d)
            /\ logged_in' = IF LoginSucceeds(match_phrase(expected, d)) THEN TRUE
                            ELSE logged_in
            /\ pc' = "idle"
            /\ returned' = "login"
            /\ retval' = None
            /\ UNCHANGED <<debug, conn, status, neg, pos, resp, sent, output,
                           username, password, cmd, ncalls>>
       ELSE NoMatch(d)

(* a variant without the logged-in test *)
WriteAlwaysAllowed == TRUE

(* the test of line 319 *)
WriteAllowed == logged_in

(* write, up to its first receive; the else branch only prints *)
write(c) ==
    /\ Running /\ pc = "idle" /\ ncalls < MaxCalls
    /\ ncalls' = ncalls + 1
    /\ IF WriteAllowed
       THEN /\ cmd' = c
            /\ pc' = "write_expect"
            /\ UNCHANGED <<returned, retval>>
       ELSE /\ returned' = "write"
            /\ retval' = None
            /\ UNCHANGED <<cmd, pc>>
    /\ UNCHANGED <<logged_in, debug, conn, status, neg, recvd, data, pos, resp, sent,
                   result, output, username, password, nrecv>>

(* expect(self.prompts), one turn; on a match write encodes and sends the command *)
write_expect(d) ==
    /\ AtReceive("write_expect")
    /\ ReceivedData(d)
    /\ IF RecvOutcome(d) = "data" /\ match_phrase(promptPhrases, d) # -1
       THEN /\ IF AsciiOk(cmd)
               THEN /\ sent' = Append(sent, Line(cmd))
                    /\ pc' = "write_output"
                    /\ UNCHANGED status
               ELSE /\ status' = "crashed"
                    /\ UNCHANGED <<sent, pc>>
            /\ UNCHANGED <<logged_in, debug, conn, neg, pos, resp, result, output,
                           retval, returned, username, password, cmd, ncalls>>
       ELSE NoMatch(d)

(* what write hands back: the function has no return statement *)
WriteReturns(out) == None

(* output = self.conn.recv(1024); print_debug(self.serv, output); return *)
write_output(d) ==
    /\ AtReceive("write_output")
    /\ Received(d)
    /\ IF RecvOutcome(d) \in {"OSError", "IndexError"}
       THEN /\ status' = "crashed"
            /\ output' = IF RecvOutcome(d) = "IndexError" THEN d ELSE output
            /\ UNCHANGED <<pc, returned, retval>>
       ELSE /\ output' = d
            /\ pc' = "idle"
            /\ returned' = "write"
            /\ retval' = WriteReturns(d)
            /\ UNCHANGED status
    /\ UNCHANGED <<logged_in, debug, conn, neg, data, pos, resp, sent, result,
                   username, password, cmd, ncalls>>

(* a variant that closes the socket and forgets to log out *)
close_keeps_login ==
    /\ Running /\ pc = "idle" /\ ncalls < MaxCalls
    /\ ncalls' = ncalls + 1
    /\ conn' = "closed"
    /\ returned' = "close"
    /\ retval' = None
    /\ UNCHANGED <<logged_in, debug, status, pc, neg, recvd, data, pos, resp, sent, result,
                   output, username, password, cmd, nrecv>>

(* close: logs out and closes the socket *)
close ==
    /\ Running /\ pc = "idle" /\ ncalls < MaxCalls
    /\ ncalls' = ncalls + 1
    /\ logged_in' = FALSE
    /\ conn' = "closed"
    /\ returned' = "close"
    /\ retval' = None
    /\ UNCHANGED <<debug, status, pc, neg, recvd, data, pos, resp, sent, result, output,
                   username, password, cmd, nrecv>>

----------------------------------------------------------------------------
(* negotiate(data), one turn of its while loop per step *)

Scanning == Running /\ neg /\ pos < Len(data)

(* `while pos < len(data)` fails: negotiate returns to the receive loop *)
negotiate_return ==
    /\ Running /\ neg /\ pos >= Len(data)
    /\ neg' = FALSE
    /\ resp' = <<>>
    /\ UNCHANGED <<logged_in, debug, conn, status, pc, recvd, data, pos, sent, result,
                   output, retval, returned, username, password, cmd, nrecv, ncalls>>

(* data[pos] != IAC: pos += 1 *)
negotiate_skip ==
    /\ Scanning
    /\ ~IsEscape(data[pos + 1])
    /\ pos' = pos + 1
    /\ UNCHANGED <<logged_in, debug, conn, status, pc, neg, recvd, data, resp, sent, result,
                   output, retval, returned, username, password, cmd, nrecv, ncalls>>

(* data[pos+1] == IAC ("Extra IAC, whoops"): pos += 1 *)
negotiate_extra_iac ==
    /\ Scanning
    /\ IsEscape(data[pos + 1])
    /\ pos + 1 < Len(data)
    /\ IsEscape(data[pos + 2])
    /\ pos' = pos + 1
    /\ UNCHANGED <<logged_in, debug, conn, status, pc, neg, recvd, data, resp, sent, result,
                   output, retval, returned, username, password, cmd, nrecv, ncalls>>

(* data[pos+1] or data[pos+2] lies beyond the chunk: IndexError *)
negotiate_index_error ==
    /\ Scanning
    /\ IsEscape(data[pos + 1])
    /\ \/ pos + 1 >= Len(data)
       \/ pos + 1 < Len(data) /\ ~IsEscape(data[pos + 2]) /\ pos + 2 >= Len(data)
    /\ status' = "crashed"
    /\ UNCHANGED <<logged_in, debug, conn, pc, neg, recvd, data, pos, resp, sent, result,
                   output, retval, returned, username, password, cmd, nrecv, ncalls>>

(* a whole sequence IAC code val lies at pos, and code is not IAC *)
AtSequence ==
    /\ Scanning
    /\ IsEscape(data[pos + 1])
    /\ pos + 2 < Len(data)
    /\ ~IsEscape(data[pos + 2])

(* a variant that steps over the whole three-byte sequence *)
negotiate_respond_whole_sequence ==
    /\ AtSequence
    /\ handle_command(data[pos + 2], data[pos + 3]) # <<>>
    /\ resp' = handle_command(data[pos + 2], data[pos + 3])
    /\ IF print_debug_raises(handle_command(data[pos + 2], data[pos + 3]))
       THEN status' = "crashed" /\ UNCHANGED <<sent, pos>>
       ELSE /\ sent' = Append(sent, handle_command(data[pos + 2], data[pos + 3]))
            /\ pos' = pos + 3
            /\ UNCHANGED status
    /\ UNCHANGED <<logged_in, debug, conn, pc, neg, recvd, data, result, output, retval,
                   returned, username, password, cmd, nrecv, ncalls>>

(* handle_command gives a response: print_debug(resp), conn.send(resp), pos += 2 *)
negotiate_respond ==
    /\ AtSequence
    /\ handle_command(data[pos + 2], data[pos + 3]) # <<>>
    /\ resp' = handle_command(data[pos + 2], data[pos + 3])
    /\ IF print_debug_raises(handle_command(data[pos + 2], data[pos + 3]))
       THEN status' = "crashed" /\ UNCHANGED <<sent, pos>>
       ELSE /\ sent' = Append(sent, handle_command(data[pos + 2], data[pos + 3]))
            /\ pos' = pos + 2
            /\ UNCHANGED status
    /\ UNCHANGED <<logged_in, debug, conn, pc, neg, recvd, data, result, output, retval,
                   returned, username, password, cmd, nrecv, ncalls>>

(* handle_command has no method for the code: sys.exit() *)
negotiate_unhandled ==
    /\ AtSequence
    /\ handle_command(data[pos + 2], data[pos + 3]) = <<>>
    /\ status' = "exited"
    /\ UNCHANGED <<logged_in, debug, conn, pc, neg, recvd, data, pos, resp, sent, result,
                   output, retval, returned, username, password, cmd, nrecv, ncalls>>

----------------------------------------------------------------------------
Next ==
    \/ set_debug /\ UNCHANGED peer
    \/ \E u \in Usernames, p \in Passwords : login(u, p) /\ UNCHANGED peer
    \/ \E d \in Chunks : login_read_ogin(d) /\ UNCHANGED peer
    \/ \E d \in Chunks : login_read_assword(d) /\ UNCHANGED peer
    \/ \E d \in Chunks : login_expect(d) /\ UNCHANGED peer
    \/ \E c \in Commands : write(c) /\ UNCHANGED peer
    \/ \E d \in Chunks : write_expect(d) /\ UNCHANGED peer
    \/ \E d \in Chunks : write_output(d) /\ UNCHANGED peer
    \/ close /\ UNCHANGED peer
    \/ negotiate_return /\ UNCHANGED peer
    \/ negotiate_skip /\ UNCHANGED peer
    \/ negotiate_extra_iac /\ UNCHANGED peer
    \/ negotiate_index_error /\ UNCHANGED peer
    \/ negotiate_respond /\ UNCHANGED peer
    \/ negotiate_unhandled /\ UNCHANGED peer

Spec == Init /\ [][Next]_vars

----------------------------------------------------------------------------
(* The scan on its own: negotiate(data) as read_until('ogin') calls it for   *)
(* the first chunk of a login, over every option id and a range of chunks.   *)

OptionIds == 0..255
Verbs == {WILL, DO, WONT, DONT, SE, IAC}
PlainBytes == {0, 1, 36, 120, WILL, DO, DONT}
Tails == { <<>>, <<120>>, <<IAC>>, <<IAC, DO>>, <<IAC, DO, 1>>, <<WILL, 1>>,
           <<1, IAC, WILL, 3>> }

RECURSIVE SeqsUpTo(_, _)
SeqsUpTo(S, n) ==
    IF n = 0 THEN {<<>>}
    ELSE SeqsUpTo(S, n - 1) \cup
         {Append(q, b) : q \in {r \in SeqsUpTo(S, n - 1) : Len(r) = n - 1}, b \in S}

NegChunks ==
    (SeqsUpTo(PlainBytes, MaxPlain) \ {<<>>})
    \cup {<<IAC>>} \cup {<<IAC, c>> : c \in Verbs}
    \cup {<<IAC, c, v>> \o t : c \in Verbs, v \in OptionIds, t \in Tails}

InitNeg ==
    /\ logged_in = FALSE
    /\ debug \in BOOLEAN
    /\ conn = "open"
    /\ status = "running"
    /\ pc = "login_ogin"
    /\ neg = TRUE
    /\ data \in NegChunks
    /\ recvd = data
    /\ ~Contains(Ogin, data)
    /\ ~print_debug_raises(data)
    /\ pos = 0
    /\ resp = <<>>
    /\ sent = <<>>
    /\ result = -2
    /\ output = <<>>
    /\ retval = None
    /\ returned = IF debug THEN "set_debug" ELSE "none"
    /\ username = Line(<<117>>)
    /\ password = <<112>>
    /\ cmd = <<>>
    /\ nrecv = 1
    /\ ncalls = IF debug THEN 2 ELSE 1
    /\ peer = NoScript

NextNeg ==
    \/ negotiate_return /\ UNCHANGED peer
    \/ negotiate_skip /\ UNCHANGED peer
    \/ negotiate_extra_iac /\ UNCHANGED peer
    \/ negotiate_index_error /\ UNCHANGED peer
    \/ negotiate_respond /\ UNCHANGED peer
    \/ negotiate_unhandled /\ UNCHANGED peer

SpecNeg == InitNeg /\ [][NextNeg]_vars

----------------------------------------------------------------------------
(* A login whose first chunk was 'og', the front half of 'ogin': the state   *)
(* of read_until('ogin') after its first receive, with negotiate('og') about *)
(* to run.  The receive loops of login go on from there.                     *)

OginFront == <<111, 103>>                               \* 'og'

InitSplit ==
    /\ logged_in = FALSE
    /\ debug \in BOOLEAN
    /\ conn = "open"
    /\ status = "running"
    /\ pc = "login_ogin"
    /\ neg = TRUE
    /\ data = OginFront
    /\ recvd = data
    /\ pos = 0
    /\ resp = <<>>
    /\ sent = <<>>
    /\ result = -2
    /\ output = <<>>
    /\ retval = None
    /\ returned = IF debug THEN "set_debug" ELSE "none"
    /\ username = Line(<<117>>)
    /\ password = <<112>>
    /\ cmd = <<>>
    /\ nrecv = 1
    /\ ncalls = IF debug THEN 2 ELSE 1
    /\ peer = NoScript

NextSplit ==
    \/ \E d \in Chunks : login_read_ogin(d) /\ UNCHANGED peer
    \/ \E d \in Chunks : login_read_assword(d) /\ UNCHANGED peer
    \/ \E d \in Chunks : login_expect(d) /\ UNCHANGED peer
    \/ negotiate_return /\ UNCHANGED peer
    \/ negotiate_skip /\ UNCHANGED peer
    \/ negotiate_extra_iac /\ UNCHANGED peer
    \/ negotiate_index_error /\ UNCHANGED peer
    \/ negotiate_respond /\ UNCHANGED peer
    \/ negotiate_unhandled /\ UNCHANGED peer

SpecSplit == InitSplit /\ [][NextSplit]_vars

----------------------------------------------------------------------------
(* A session against a scripted peer that never closes: it emits a chunk     *)
(* holding 'ogin' on connection, a chunk holding 'assword' for the username  *)
(* line, a chunk holding a prompt character for the password line and for    *)
(* every command line, and nothing else -- except that it may put one banner *)
(* chunk in front of its first prompt.  The caller is the script of          *)
(* example.py: set_debug() or not, one login, then writes.                   *)

OginChunks ==
    { Ogin,
      <<108>> \o Ogin \o <<58, 32>>,                    \* 'login: '
      <<IAC, DO, 1>> \o Ogin,
      Ogin \o <<IAC>> }

AsswordChunks ==
    { Assword,
      <<80>> \o Assword \o <<58, 32>> }                 \* 'Password: '

PromptChunks == { <<36>>, <<36, 32>>, <<35, 32>> }       \* '$', '$ ', '# '

Banner == <<76, 97, 115, 116, 32, 108, 111, 103, 105, 110, 58>>   \* 'Last login:'

InitPeer ==
    /\ logged_in = FALSE
    /\ debug = FALSE
    /\ conn = "open"
    /\ status = "running"
    /\ pc = "idle"
    /\ neg = FALSE
    /\ recvd = <<>>
    /\ data = <<>>
    /\ pos = 0
    /\ resp = <<>>
    /\ sent = <<>>
    /\ result = -2
    /\ output = <<>>
    /\ retval = None
    /\ returned = "none"
    /\ username = <<>>
    /\ password = <<>>
    /\ cmd = <<>>
    /\ nrecv = 0
    /\ ncalls = 0
    /\ \E og \in OginChunks : peer = [out |-> <<og>>, banner |-> FALSE]

(* the peer's chunk is taken off the wire; what the peer emits for the line *)
(* the step sent, if it sent one, goes on the wire behind the others        *)
Delivered(replies) ==
    peer' = [peer EXCEPT !.out = Tail(@) \o (IF sent' # sent THEN replies ELSE <<>>)]

peer_set_debug == set_debug /\ UNCHANGED peer

(* the one login of the session, with arguments that encode *)
peer_login(u, p) ==
    /\ nrecv = 0 /\ username = <<>>
    /\ AsciiOk(u) /\ AsciiOk(p)
    /\ login(u, p)
    /\ UNCHANGED peer

peer_login_read_ogin ==
    /\ peer.out # <<>>
    /\ login_read_ogin(Head(peer.out))
    /\ \E aw \in AsswordChunks : Delivered(<<aw>>)

(* the answer to the password line: one prompt chunk, or a banner and the prompt *)
peer_login_read_assword ==
    /\ peer.out # <<>>
    /\ login_read_assword(Head(peer.out))
    /\ \E pr \in PromptChunks :
          \/ Delivered(<<pr>>)
          \/ /\ sent' # sent
             /\ peer' = [out |-> Tail(peer.out) \o <<Banner, pr>>, banner |-> TRUE]

peer_login_expect ==
    /\ peer.out # <<>>
    /\ login_expect(Head(peer.out))
    /\ Delivered(<<>>)

peer_write(c) ==
    /\ AsciiOk(c)
    /\ write(c)
    /\ UNCHANGED peer

peer_write_expect ==
    /\ peer.out # <<>>
    /\ write_expect(Head(peer.out))
    /\ \E pr \in PromptChunks : Delivered(<<pr>>)

peer_write_output ==
    /\ peer.out # <<>>
    /\ write_output(Head(peer.out))
    /\ Delivered(<<>>)

NextPeer ==
    \/ peer_set_debug
    \/ \E u \in Usernames, p \in Passwords : peer_login(u, p)
    \/ peer_login_read_ogin
    \/ peer_login_read_assword
    \/ peer_login_expect
    \/ \E c \in Commands : peer_write(c)
    \/ peer_write_expect
    \/ peer_write_output

SpecPeer == InitPeer /\ [][NextPeer]_vars

----------------------------------------------------------------------------
(* Properties *)

(* the phrase list of the login decision, written out *)
ResultPhrases ==
    << <<110, 99, 111, 114, 114, 101, 99, 116>>, <<58>>, <<62>>, <<36>>, <<35>>, <<37>> >>

(* the lowest 0-based index of a phrase of ResultPhrases found in d, or -1 *)
ResultIndex(d) ==
    IF \A i \in 1..Len(ResultPhrases) : ~Contains(ResultPhrases[i], d) THEN -1
    ELSE (CHOOSE i \in 1..Len(ResultPhrases) :
            /\ Contains(ResultPhrases[i], d)
            /\ \A j \in 1..(i - 1) : ~Contains(ResultPhrases[j], d)) - 1

(* C1: the step on which login returns sets logged_in to TRUE exactly when   *)
(* the index of the phrase matched in ['ncorrect', ':', '>', '$', '#', '%']  *)
(* is greater than 0; with index 0 the flag keeps the value it had.          *)
C1_LoginDecides ==
    [][ (pc = "login_expect" /\ pc' = "idle")
        => /\ ResultIndex(recvd') >= 0
           /\ result' = ResultIndex(recvd')
           /\ returned' = "login"
           /\ logged_in' = (IF ResultIndex(recvd') > 0 THEN TRUE ELSE logged_in) ]_vars

(* a login that returned on the prompt '$' and is authenticated *)
C1_Witness ==
    /\ returned = "login" /\ pc = "idle" /\ status = "running"
    /\ recvd = <<36>> /\ result = 3 /\ logged_in /\ Len(sent) = 2

SequenceAtPos ==
    /\ status = "running" /\ neg
    /\ pos + 2 < Len(data)
    /\ data[pos + 1] = 255

(* C3: for every option id the response generated for WILL (251) is          *)
(* [255, 254, id] and the response generated for DO (253) is [255, 252, id]; *)
(* nothing else is ever sent by the scan.                                    *)
C3_CounterResponse ==
    [][ /\ (SequenceAtPos /\ data[pos + 2] = 251) => resp' = <<255, 254, data[pos + 3]>>
        /\ (SequenceAtPos /\ data[pos + 2] = 253) => resp' = <<255, 252, data[pos + 3]>>
        /\ sent' # sent => sent' = Append(sent, resp') ]_vars

(* WILL 200 and DO 1 were both answered *)
C3_Witness ==
    /\ sent = << <<255, 254, 200>>, <<255, 252, 1>> >>
    /\ resp = <<255, 252, 1>>
    /\ status = "running"

NoEscapeIn(d) == \A i \in 1..Len(d) : d[i] # 255

(* C4: on a chunk without the byte 255 the scan sends nothing, ends neither  *)
(* by sys.exit nor by an exception, can always take its next step, and stops *)
(* at the end of the chunk.                                                  *)
C4_NoEscapeNoSend ==
    NoEscapeIn(data)
    => /\ sent = <<>> /\ resp = <<>>
       /\ status = "running"
       /\ pos <= Len(data)
       /\ neg => ENABLED (negotiate_skip \/ negotiate_return)

(* the scan of a three-byte chunk holding verb bytes but no escape has returned *)
C4_Witness ==
    /\ NoEscapeIn(data) /\ Len(data) = 3 /\ data[1] = 251 /\ data[2] = 253
    /\ ~neg /\ pos = 3 /\ sent = <<>> /\ status = "running"

(* C5, as claimed: every sequence whose verb is neither WILL nor DO gets no  *)
(* response and ends the process at once.                                    *)
C5_AnyOtherVerbIsFatal ==
    [][ (SequenceAtPos /\ data[pos + 2] \notin {251, 253})
        => (status' = "exited" /\ sent' = sent /\ pos' = pos) ]_vars

(* C5, amended: every whole sequence whose verb is none of WILL, DO and IAC  *)
(* gets no response and ends the process by sys.exit at once, no later byte  *)
(* being scanned; a second IAC in the verb position is skipped instead: the  *)
(* scan sends nothing, moves one byte on and continues.                      *)
C5_UnhandledVerbIsFatal ==
    [][ /\ (SequenceAtPos /\ data[pos + 2] \notin {251, 253, 255})
           => (status' = "exited" /\ sent' = sent /\ pos' = pos /\ neg')
        /\ (SequenceAtPos /\ data[pos + 2] = 255)
           => (status' = "running" /\ sent' = sent /\ pos' = pos + 1 /\ neg')
        /\ status = "exited" => UNCHANGED vars ]_vars

(* the process exited on WONT with a whole DO sequence left unscanned behind it *)
C5_Witness ==
    /\ status = "exited" /\ neg /\ pos = 0 /\ sent = <<>>
    /\ Len(data) = 6 /\ data[1] = 255 /\ data[2] = 252
    /\ data[4] = 255 /\ data[5] = 253

LoginStages == {"login_ogin", "login_assword", "login_expect"}

(* C6: an empty receive at any of login's three waits ends the process by    *)
(* sys.exit on that very step, with nothing sent and logged_in untouched,    *)
(* and nothing at all happens once the process has exited.                   *)
C6_EmptyReceiveInLogin ==
    [][ /\ (pc \in LoginStages /\ nrecv' = nrecv + 1 /\ recvd' = <<>>)
           => (status' = "exited" /\ sent' = sent /\ logged_in' = logged_in /\ pc' = pc)
        /\ status = "exited" => UNCHANGED vars ]_vars

(* the peer closed after the password was sent *)
C6_Witness ==
    /\ status = "exited" /\ pc = "login_expect" /\ recvd = <<>> /\ data = <<>>
    /\ Len(sent) = 2 /\ ~logged_in

(* C7, as claimed: an empty receive is fatal at every receive. *)
C7_EveryEmptyReceiveIsFatal ==
    [][ (nrecv' = nrecv + 1 /\ recvd' = <<>>) => status' = "exited" ]_vars

(* C7, amended: an empty receive is fatal at every receive of read_until and *)
(* expect, the prompt wait of write included; the one receive that captures  *)
(* the command output is not tested: on an empty chunk write returns         *)
(* normally with the session still logged in.                                *)
C7_EmptyReceiveFatalInLoops ==
    [][ /\ (nrecv' = nrecv + 1 /\ recvd' = <<>> /\ pc # "write_output")
           => (status' = "exited" /\ sent' = sent /\ pc' = pc)
        /\ (nrecv' = nrecv + 1 /\ recvd' = <<>> /\ pc = "write_output")
           => /\ status' = "running" /\ pc' = "idle" /\ returned' = "write"
              /\ output' = <<>> /\ logged_in' /\ sent' = sent ]_vars

(* write returned after the peer closed instead of echoing the command *)
C7_Witness ==
    /\ returned = "write" /\ pc = "idle" /\ status = "running" /\ logged_in
    /\ recvd = <<>> /\ output = <<>> /\ Len(sent) = 3 /\ sent[3] = <<99, 10>>

(* C8: once close() has closed the socket it stays closed, the session is    *)
(* never logged in again, and nothing more is sent or received.              *)
C8_ClosedIsTerminal ==
    [][ /\ conn' = "closed" => ~logged_in'
        /\ conn = "closed"
           => (conn' = "closed" /\ sent' = sent /\ nrecv' = nrecv /\ recvd' = recvd) ]_vars

(* a login succeeded, close() was called, and a further login failed at its  *)
(* first receive                                                             *)
C8_Witness ==
    /\ conn = "closed" /\ ~logged_in /\ result > 0
    /\ pc = "login_ogin" /\ status = "crashed" /\ ncalls = 3 /\ Len(sent) = 2

(* C9: logged_in rises only on the step on which login returns with a match  *)
(* index above 0, and falls only on close(); every other step (the scan, the *)
(* receive loops, write, a failed login) leaves it as it is.                 *)
C9_FlagChanges ==
    [][ /\ (~logged_in /\ logged_in')
           => /\ pc = "login_expect" /\ ~neg /\ pc' = "idle"
              /\ returned' = "login" /\ result' > 0
        /\ (logged_in /\ ~logged_in')
           => (pc = "idle" /\ returned' = "close" /\ conn' = "closed") ]_vars

(* the flag was raised by a login and survived a whole write whose output   *)
(* was 'ncorrect'                                                            *)
C9_Witness ==
    /\ logged_in /\ returned = "write" /\ pc = "idle" /\ status = "running"
    /\ result > 0 /\ Len(sent) = 3 /\ output = ResultPhrases[1]

(* C10, as claimed: a completed authenticated write sent command + newline   *)
(* last and returns the bytes of its one further receive.                    *)
C10_WriteReturnsOutput ==
    (returned = "write" /\ logged_in /\ pc = "idle")
    => (sent[Len(sent)] = Append(cmd, 10) /\ output = recvd /\ retval = output)

(* C10, amended: a completed authenticated write sends command + newline as  *)
(* its last payload (after the responses of the prompt wait), then performs  *)
(* exactly one further receive and keeps that receive's bytes unmodified in  *)
(* its local `output`; it returns nothing (None).                            *)
C10_WriteSendsThenReceivesOnce ==
    [][ /\ (pc = "write_expect" /\ pc' = "write_output")
           => (sent' = Append(sent, Append(cmd, 10)) /\ nrecv' = nrecv + 1)
        /\ (pc = "write_output" /\ pc' = "idle")
           => /\ nrecv' = nrecv + 1 /\ output' = recvd' /\ sent' = sent
              /\ returned' = "write" /\ retval' = <<-1>> /\ status' = "running"
        /\ (pc = "write_output" /\ status' = "running" /\ nrecv' # nrecv)
           => pc' = "idle" ]_vars

(* write('c') returned None after receiving 'x' *)
C10_Witness ==
    /\ returned = "write" /\ logged_in /\ pc = "idle" /\ status = "running"
    /\ cmd = <<99>> /\ sent[Len(sent)] = <<99, 10>>
    /\ recvd = <<120>> /\ output = <<120>> /\ retval = <<-1>>

(* the positions of d at which a whole WILL or DO sequence starts *)
WillDoStarts(d) ==
    {i \in 1..Len(d) : i + 2 <= Len(d) /\ d[i] = 255 /\ d[i + 1] \in {251, 253}}

(* C11: in write, the WILL/DO sequences carried by the chunk that ends the   *)
(* prompt wait are answered before command + newline is sent: on the step    *)
(* that sends the command, one response per sequence goes out ahead of it.   *)
C11_SequencesAnsweredBeforeCommand ==
    [][ (pc = "write_expect" /\ pc' = "write_output")
        => /\ Len(sent') = Len(sent) + Cardinality(WillDoStarts(recvd')) + 1
           /\ sent'[Len(sent')] = Append(cmd, 10) ]_vars

(* d is made only of whole sequences [255, 251 | 253, id], at least one *)
OnlyWillDoSequences(d) ==
    /\ Len(d) > 0 /\ Len(d) % 3 = 0
    /\ \A k \in 0..((Len(d) \div 3) - 1) : d[3 * k + 1] = 255 /\ d[3 * k + 2] \in {251, 253}

(* the counter-responses of such a chunk, in the order of its sequences *)
ResponsesOf(d) ==
    [k \in 1..(Len(d) \div 3) |->
        <<255, IF d[3 * k - 1] = 251 THEN 254 ELSE 252, d[3 * k]>>]

(* C14: on a chunk made only of whole WILL/DO sequences the scan never ends  *)
(* by an exception or an exit, what it has sent is always a prefix of the    *)
(* sequences' counter-responses in order, and when it has returned it has    *)
(* sent exactly one response per sequence.  Stated for the engine as it is   *)
(* constructed, with the debug flag clear.                                   *)
C14_OneResponsePerSequence ==
    (~debug /\ OnlyWillDoSequences(data))
    => /\ status = "running"
       /\ Len(sent) <= Len(ResponsesOf(data))
       /\ sent = SubSeq(ResponsesOf(data), 1, Len(sent))
       /\ ~neg => sent = ResponsesOf(data)

HasPrompt(d) == \E i \in 1..Len(d) : d[i] \in {58, 62, 36, 35, 37}

(* C15: a result chunk that holds both 'ncorrect' and a prompt character,    *)
(* wherever each of them lies in the chunk, is reported with index 0, the    *)
(* lowest index of the list, and the login returns without logging in.       *)
C15_LowestIndexWins ==
    [][ ( /\ pc = "login_expect" /\ nrecv' = nrecv + 1 /\ status' = "running"
          /\ Contains(ResultPhrases[1], recvd') /\ HasPrompt(recvd') )
        => /\ pc' = "idle" /\ returned' = "login"
           /\ result' = 0
           /\ logged_in' = logged_in ]_vars

(* the login failed on the chunk '$ncorrect', whose prompt character comes first *)
C15_Witness ==
    /\ returned = "login" /\ pc = "idle" /\ status = "running"
    /\ recvd = <<36>> \o ResultPhrases[1] /\ result = 0 /\ ~logged_in

(* phrase occurs in d, byte by byte *)
Occurs(phrase, d) ==
    \E i \in 1..Len(d) :
        /\ i + Len(phrase) - 1 <= Len(d)
        /\ \A j \in 1..Len(phrase) : d[i + j - 1] = phrase[j]

(* C16: outside the scan, login sends only on two steps.  The username line  *)
(* goes out on the step that receives a chunk holding 'ogin'; the password   *)
(* line goes out on a later step that receives a chunk holding 'assword',    *)
(* when the username line is already among the payloads sent.                *)
C16_LoginSendOrder ==
    [][ (pc \in LoginStages /\ ~neg /\ sent' # sent)
        => \/ /\ pc = "login_ogin"
              /\ nrecv' = nrecv + 1
              /\ Occurs(<<111, 103, 105, 110>>, recvd')
              /\ sent' = Append(sent, username)
              /\ username[Len(username)] = 10
           \/ /\ pc = "login_assword"
              /\ nrecv' = nrecv + 1
              /\ Occurs(<<97, 115, 115, 119, 111, 114, 100>>, recvd')
              /\ sent' = Append(sent, Append(password, 10))
              /\ \E k \in 1..Len(sent) : sent[k] = username ]_vars

(* both lines were sent, the username first, with a response in between *)
C16_Witness ==
    /\ pc = "login_expect" /\ status = "running"
    /\ sent = << <<117, 10>>, <<255, 254, 1>>, <<112, 10>> >>

(* the scan has just answered the sequence two bytes back and now stands on  *)
(* that sequence's option-id byte                                            *)
OnAnsweredOptionId ==
    /\ status = "running" /\ neg
    /\ pos >= 2 /\ pos < Len(data)
    /\ data[pos - 1] = 255 /\ data[pos] \in {251, 253}
    /\ Len(sent) > 0
    /\ sent[Len(sent)] = <<255, IF data[pos] = 251 THEN 254 ELSE 252, data[pos + 1]>>
    /\ resp = sent[Len(sent)]

(* C17: a sent response moves the scan on by 2, onto the option-id byte.  An *)
(* option id other than 255 is then passed over without a response.  An     *)
(* option id of 255 is taken for a new escape whose verb is the next byte:   *)
(* WILL or DO with a byte after it is answered, a further 255 is skipped,    *)
(* any other verb with a byte after it exits.                                *)
C17_OptionIdReexamined ==
    [][ /\ (SequenceAtPos /\ sent' # sent) => pos' = pos + 2
        /\ (OnAnsweredOptionId /\ data[pos + 1] # 255)
           => (pos' = pos + 1 /\ sent' = sent /\ status' = "running")
        /\ (OnAnsweredOptionId /\ data[pos + 1] = 255 /\ pos + 2 < Len(data))
           => \/ /\ data[pos + 2] \in {251, 253}
                 /\ resp' = <<255, IF data[pos + 2] = 251 THEN 254 ELSE 252, data[pos + 3]>>
                 /\ (status' = "running" => sent' = Append(sent, resp') /\ pos' = pos + 2)
              \/ /\ data[pos + 2] = 255
                 /\ pos' = pos + 1 /\ sent' = sent
              \/ /\ data[pos + 2] \notin {251, 253, 255}
                 /\ status' = "exited" /\ sent' = sent ]_vars

(* [IAC WILL 255 WILL 1]: the option id 255 opened a second sequence, WILL 1, *)
(* which was answered as well                                                 *)
C17_Witness ==
    /\ data = <<255, 251, 255, 251, 1>>
    /\ sent = << <<255, 254, 255>>, <<255, 254, 1>> >>
    /\ pos = 4 /\ status = "running"

(* C18: with the debug printing off, the scan of any chunk never raises: it  *)
(* ends by returning or by the exit for an unhandled verb.                   *)
C18_ScanStaysInsideChunk ==
    ~debug => status # "crashed"

(* C19: what the engine does at a WILL or DO sequence is what it does with   *)
(* the debug printing off: the counter-response is sent and the scan goes on.*)
C19_DebugDoesNotChangeResponses ==
    [][ (SequenceAtPos /\ data[pos + 2] \in {251, 253})
        => /\ status' = "running"
           /\ sent' = Append(sent, <<255, IF data[pos + 2] = 251 THEN 254 ELSE 252,
                                     data[pos + 3]>>) ]_vars

(* phrase lies across the join of chunks a and b and inside neither *)
SplitAcross(phrase, a, b) ==
    /\ Occurs(phrase, a \o b)
    /\ ~Occurs(phrase, a)
    /\ ~Occurs(phrase, b)

(* C12: when the phrase read_until waits for lies across the previous chunk  *)
(* and the one just received, and is inside neither, the receive reports no  *)
(* match: login stays in the same read_until, sends nothing, and the chunk   *)
(* goes to the scan, after which the loop receives again.                    *)
C12_SplitPhraseNotMatched ==
    [][ /\ (pc = "login_ogin" /\ ~neg /\ nrecv' = nrecv + 1
              /\ SplitAcross(<<111, 103, 105, 110>>, recvd, recvd'))
           => (pc' = pc /\ sent' = sent /\ status' = "running" /\ neg' /\ pos' = 0)
        /\ (pc = "login_assword" /\ ~neg /\ nrecv' = nrecv + 1
              /\ SplitAcross(<<97, 115, 115, 119, 111, 114, 100>>, recvd, recvd'))
           => (pc' = pc /\ sent' = sent /\ status' = "running" /\ neg' /\ pos' = 0) ]_vars

(* 'og' then 'in' were received and scanned; read_until('ogin') still waits  *)
C12_Witness ==
    /\ nrecv = 2 /\ recvd = <<105, 110>>
    /\ pc = "login_ogin" /\ ~neg /\ status = "running"
    /\ sent = <<>>

(* C13: against the scripted peer a login never ends in any way but          *)
(* authenticated: while it runs, the engine has not stopped and its next     *)
(* chunk is on the wire; once it has returned, logged_in is set.             *)
C13_PacedLoginAuthenticates ==
    /\ pc \in LoginStages => (status = "running" /\ peer.out # <<>>)
    /\ (pc = "idle" /\ returned = "login") => (status = "running" /\ logged_in)

(* C20: against the scripted peer without the banner, a write that has been  *)
(* called after the login goes on to its end: while it waits in a receive,   *)
(* a chunk is on the wire for it.                                            *)
C20_WriteNeverStarves ==
    (~peer.banner /\ status = "running" /\ pc \in {"write_expect", "write_output"})
    => /\ peer.out # <<>>
       /\ ENABLED NextPeer

====
